---- MODULE Spec2Model ----
(***************************************************************************)
(* Model of the step player of the JavaScript runtime visualizer           *)
(* (JsRuntimeVisualizer).  The repository holds two variants of the        *)
(* component: one whose steps table has 13 transitions and one whose       *)
(* table has 12.  The component is a set of React state hooks, one         *)
(* effect that keeps a timer pending while playing, and two buttons.       *)
(*                                                                         *)
(* Granularity: one action is one browser task (a click handler or the     *)
(* timer callback) together with the render and the effect cleanup/setup   *)
(* it causes.  The state updates of one handler are batched into a single  *)
(* render, and the effect of that render has run before the next task.     *)
(***************************************************************************)
EXTENDS Integers, Sequences, FiniteSets, TLC

VARIABLES
    variant,        \* which of the two components is mounted
    isPlaying,      \* useState(false)
    step,           \* useState(0)
    callStack,      \* useState([]); index 0 of the array is the top frame
    microtaskQueue, \* useState([])
    callbackQueue,  \* useState([])
    consoleOutput,  \* useState([])
    lookingAt,      \* useState("stack")
    timers,         \* pending setTimeout timers: records [id, step], step is
                    \* the value of `step` captured by the callback's closure
    effectTimer,    \* timer id held by the mounted effect's cleanup, 0 if none
    lastOp,         \* history: the task that produced this state
    prev            \* history: the component state before that task

vars == <<variant, isPlaying, step, callStack, microtaskQueue, callbackQueue,
          consoleOutput, lookingAt, timers, effectTimer, lastOp, prev>>

Variants == {"v13", "v12"}

LookingAt == {"stack", "microtask", "callback"}

\* The values of the seven state hooks, as one record.
State ==
    [isPlaying      |-> isPlaying,
     step           |-> step,
     callStack      |-> callStack,
     microtaskQueue |-> microtaskQueue,
     callbackQueue  |-> callbackQueue,
     consoleOutput  |-> consoleOutput,
     lookingAt      |-> lookingAt]

\* The initial values passed to useState.
InitialState ==
    [isPlaying      |-> FALSE,
     step           |-> 0,
     callStack      |-> <<>>,
     microtaskQueue |-> <<>>,
     callbackQueue  |-> <<>>,
     consoleOutput  |-> <<>>,
     lookingAt      |-> "stack"]

\* The execution state: everything but the player's own two fields.
Exec(s) ==
    [callStack      |-> s.callStack,
     microtaskQueue |-> s.microtaskQueue,
     callbackQueue  |-> s.callbackQueue,
     consoleOutput  |-> s.consoleOutput,
     lookingAt      |-> s.lookingAt]

\* resetState without setConsoleOutput([]).
resetStateKeepsOutput(s) ==
    [s EXCEPT !.step = 0,
              !.callStack = <<>>,
              !.microtaskQueue = <<>>,
              !.callbackQueue = <<>>,
              !.isPlaying = FALSE,
              !.lookingAt = "stack"]

\* resetState without setIsPlaying(false).
resetStateKeepsPlaying(s) ==
    [s EXCEPT !.step = 0,
              !.callStack = <<>>,
              !.microtaskQueue = <<>>,
              !.callbackQueue = <<>>,
              !.consoleOutput = <<>>,
              !.lookingAt = "stack"]

\* resetState without the two queue setters.
resetStateKeepsQueues(s) ==
    [s EXCEPT !.step = 0,
              !.callStack = <<>>,
              !.consoleOutput = <<>>,
              !.isPlaying = FALSE,
              !.lookingAt = "stack"]

\* resetState without setLookingAt("stack").
resetStateKeepsFocus(s) ==
    [s EXCEPT !.step = 0,
              !.callStack = <<>>,
              !.microtaskQueue = <<>>,
              !.callbackQueue = <<>>,
              !.consoleOutput = <<>>,
              !.isPlaying = FALSE]

resetState(s) ==
    [s EXCEPT !.step = 0,
              !.callStack = <<>>,
              !.microtaskQueue = <<>>,
              !.callbackQueue = <<>>,
              !.consoleOutput = <<>>,
              !.isPlaying = FALSE,
              !.lookingAt = "stack"]

\* The steps table of the 13-transition component.  Element k+1 is the
\* state that steps[k]() produces from s.
steps13(s) ==
    << [s EXCEPT !.callStack = <<"Global Execution Context">>,
                 !.lookingAt = "stack"],
       [s EXCEPT !.callStack = <<"console.log(\"Start\")", "Global Execution Context">>,
                 !.consoleOutput = Append(s.consoleOutput, "Start"),
                 !.lookingAt = "stack"],
       [s EXCEPT !.callStack = <<"Global Execution Context">>,
                 !.lookingAt = "stack"],
       [s EXCEPT !.callbackQueue = Append(s.callbackQueue, "() => console.log(\"Timeout\")"),
                 !.lookingAt = "callback"],
       [s EXCEPT !.microtaskQueue = Append(s.microtaskQueue, "() => console.log(\"Promise\")"),
                 !.lookingAt = "microtask"],
       [s EXCEPT !.callStack = <<"console.log(\"End\")", "Global Execution Context">>,
                 !.consoleOutput = Append(s.consoleOutput, "End"),
                 !.lookingAt = "stack"],
       [s EXCEPT !.callStack = <<"Global Execution Context">>],
       [s EXCEPT !.callStack = <<>>,
                 !.lookingAt = "microtask"],
       [s EXCEPT !.callStack = <<"Promise callback">>,
                 !.microtaskQueue = <<>>,
                 !.consoleOutput = Append(s.consoleOutput, "Promise"),
                 !.lookingAt = "stack"],
       [s EXCEPT !.callStack = <<>>,
                 !.lookingAt = "callback"],
       [s EXCEPT !.callStack = <<"setTimeout callback">>,
                 !.callbackQueue = <<>>,
                 !.consoleOutput = Append(s.consoleOutput, "Timeout"),
                 !.lookingAt = "stack"],
       [s EXCEPT !.callStack = <<>>,
                 !.lookingAt = "stack"],
       [s EXCEPT !.callStack = <<>>,
                 !.lookingAt = "stack"] >>

\* The steps table of the 12-transition component.
steps12(s) ==
    << [s EXCEPT !.callStack = <<"Global Execution Context">>,
                 !.lookingAt = "stack"],
       [s EXCEPT !.callStack = <<"console.log(\"Start\")", "Global Execution Context">>,
                 !.consoleOutput = Append(s.consoleOutput, "Start"),
                 !.lookingAt = "stack"],
       [s EXCEPT !.callStack = <<"Global Execution Context">>,
                 !.lookingAt = "stack"],
       [s EXCEPT !.callbackQueue = Append(s.callbackQueue, "setTimeout(() => console.log(\"Timeout\"))"),
                 !.lookingAt = "callback"],
       [s EXCEPT !.microtaskQueue = Append(s.microtaskQueue, "Promise.then(() => console.log(\"Promise\"))"),
                 !.lookingAt = "microtask"],
       [s EXCEPT !.callStack = <<"console.log(\"End\")", "Global Execution Context">>,
                 !.consoleOutput = Append(s.consoleOutput, "End"),
                 !.lookingAt = "stack"],
       [s EXCEPT !.callStack = <<"Global Execution Context">>,
                 !.lookingAt = "microtask"],
       [s EXCEPT !.callStack = <<"Promise callback", "Global Execution Context">>,
                 !.microtaskQueue = <<>>,
                 !.consoleOutput = Append(s.consoleOutput, "Promise"),
                 !.lookingAt = "stack"],
       [s EXCEPT !.callStack = <<"Global Execution Context">>,
                 !.lookingAt = "callback"],
       [s EXCEPT !.callStack = <<"setTimeout callback", "Global Execution Context">>,
                 !.callbackQueue = <<>>,
                 !.consoleOutput = Append(s.consoleOutput, "Timeout"),
                 !.lookingAt = "stack"],
       [s EXCEPT !.callStack = <<"Global Execution Context">>,
                 !.lookingAt = "stack"],
       [s EXCEPT !.callStack = <<>>,
                 !.lookingAt = "stack"] >>

\* A steps table whose last entry was left out.
stepsWithoutLast(v, s) ==
    IF v = "v13" THEN SubSeq(steps13(s), 1, Len(steps13(s)) - 1)
    ELSE SubSeq(steps12(s), 1, Len(steps12(s)) - 1)

\* A table that logs "Start" when console.log("Start") is popped instead
\* of when it is pushed.
stepsStartLoggedOnPop(v, s) ==
    LET tbl == IF v = "v13" THEN steps13(s) ELSE steps12(s)
    IN  [tbl EXCEPT ![2] = [@ EXCEPT !.consoleOutput = s.consoleOutput],
                    ![3] = [@ EXCEPT !.consoleOutput = Append(s.consoleOutput, "Start")]]

\* A table whose "End" entry sets the output instead of appending to it.
stepsOutputReplaced(v, s) ==
    LET tbl == IF v = "v13" THEN steps13(s) ELSE steps12(s)
    IN  [tbl EXCEPT ![6] = [@ EXCEPT !.consoleOutput = <<"End">>]]

\* A table that runs the setTimeout callback before the promise callback:
\* the two "execute" entries have changed places.
stepsCallbackFirst(v, s) ==
    LET tbl == IF v = "v13" THEN steps13(s) ELSE steps12(s)
        p   == IF v = "v13" THEN 9 ELSE 8
    IN  [tbl EXCEPT ![p] = tbl[p + 2], ![p + 2] = tbl[p]]

\* A table whose entry 2 does not pop console.log("Start").
stepsNoPopStart(v, s) ==
    LET tbl == IF v = "v13" THEN steps13(s) ELSE steps12(s)
    IN  [tbl EXCEPT ![3] = [s EXCEPT !.lookingAt = "stack"]]

\* The 13-transition component given the table of the other component.
stepsOfOtherVariant(v, s) == steps12(s)

steps(v, s) == IF v = "v13" THEN steps13(s) ELSE steps12(s)

\* steps.length
stepsLength(v) == Len(steps(v, InitialState))

\* A callback that increments the index outside the range test.
timerCallbackAlwaysIncrements(v, captured, s) ==
    IF captured < stepsLength(v)
    THEN [steps(v, s)[captured + 1] EXCEPT !.step = captured + 1]
    ELSE [s EXCEPT !.isPlaying = FALSE, !.step = captured + 1]

\* A callback that rewinds when the table is exhausted.
timerCallbackRewinds(v, captured, s) ==
    IF captured < stepsLength(v)
    THEN [steps(v, s)[captured + 1] EXCEPT !.step = captured + 1]
    ELSE [s EXCEPT !.isPlaying = FALSE, !.step = 0, !.callStack = <<>>,
                   !.consoleOutput = <<>>]

\* A callback that stops the player in the tick that applies the last
\* transition.
timerCallbackStopsAtLast(v, captured, s) ==
    IF captured < stepsLength(v)
    THEN [steps(v, s)[captured + 1] EXCEPT
              !.step = captured + 1,
              !.isPlaying = (captured + 1 < stepsLength(v))]
    ELSE [s EXCEPT !.isPlaying = FALSE]

\* A callback without the else branch.
timerCallbackNeverStops(v, captured, s) ==
    IF captured < stepsLength(v)
    THEN [steps(v, s)[captured + 1] EXCEPT !.step = captured + 1]
    ELSE s

\* A callback that applies the transition and leaves the index alone.
timerCallbackNoIncrement(v, captured, s) ==
    IF captured < stepsLength(v)
    THEN steps(v, s)[captured + 1]
    ELSE [s EXCEPT !.isPlaying = FALSE]

\* The description tables; element k+1 is stepDescriptions[k].
stepDescriptions13 ==
    << "Ready to start code",
       "Global Execution Context is created and pushed to the Call Stack",
       "console.log('Start') is pushed to the Call Stack",
       "console.log('Start') is popped off the Call Stack after execution",
       "setTimeout is processed and its callback is sent to Browser APIs",
       "Promise is processed and its callback is queued in Microtask Queue",
       "console.log('End') is pushed to the Call Stack",
       "console.log('End') is popped off the Call Stack after execution",
       "Global Execution Context is popped off the Call Stack",
       "Promise callback is pushed to Call Stack from Microtask Queue",
       "Promise callback is popped off the Call Stack after execution",
       "setTimeout callback is pushed to Call Stack from Callback Queue",
       "setTimeout callback is popped off the Call Stack after execution" >>

stepDescriptions12 ==
    << "Ready to start code",
       "Global Execution Context is created and pushed to the Call Stack",
       "console.log('Start') is pushed to the Call Stack",
       "console.log('Start') is popped off the Call Stack after execution",
       "setTimeout is processed and its callback is sent to Browser APIs",
       "Promise is processed and its callback is queued in Microtask Queue",
       "console.log('End') is pushed to the Call Stack",
       "console.log('End') is popped off the Call Stack after execution",
       "Promise callback is pushed to Call Stack from Microtask Queue",
       "Promise callback is popped off the Call Stack after execution",
       "setTimeout callback is pushed to Call Stack from Callback Queue",
       "setTimeout callback is popped off the Call Stack after execution",
       "Global Execution Context is popped off the Call Stack - program complete" >>

\* Description tables with one entry per transition and none for the
\* state after the last one.
stepDescriptionsPerTransition(v) ==
    IF v = "v13" THEN stepDescriptions13
    ELSE SubSeq(stepDescriptions12, 1, Len(steps12(InitialState)))

stepDescriptions(v) ==
    IF v = "v13" THEN stepDescriptions13 ELSE stepDescriptions12

\* The text rendered in the description box:
\* stepDescriptions[step] || "Visualization complete".  An index past the
\* end gives undefined and an empty string is falsy; both fall back.
renderDescription(v, i) ==
    IF i + 1 \in DOMAIN stepDescriptions(v) /\ stepDescriptions(v)[i + 1] # ""
    THEN stepDescriptions(v)[i + 1]
    ELSE "Visualization complete"

\* The callback handed to setTimeout.  `captured` is the value of `step` in
\* the closure of the render whose effect scheduled the timer; the updater
\* functions (prev => ...) read the current state s.
timerCallback(v, captured, s) ==
    IF captured < stepsLength(v)
    THEN [steps(v, s)[captured + 1] EXCEPT !.step = captured + 1]
    ELSE [s EXCEPT !.isPlaying = FALSE]

\* A play button that restarts from index 0.
onClickPlayPauseRestarts(s) ==
    [s EXCEPT !.isPlaying = ~s.isPlaying,
              !.step = IF s.isPlaying THEN s.step ELSE 0]

\* onClick of the play/pause button: setIsPlaying(!isPlaying).
onClickPlayPause(s) == [s EXCEPT !.isPlaying = ~s.isPlaying]

\* A cleanup that cancels nothing.
clearTimeoutNoop(pending, id) == pending

\* clearTimeout(id) on the set of pending timers; a no-op for an id that
\* is not pending.
clearTimeout(pending, id) == {t \in pending : t.id # id}

\* The id setTimeout returns: one that no pending timer has.
newTimerId(pending) ==
    CHOOSE n \in 1..(Cardinality(pending) + 1) : \A t \in pending : t.id # n

\* The effect without its `if (!isPlaying) return` guard.
useEffectNoGuard(old, new, pending, handle) ==
    IF old.step = new.step /\ old.isPlaying = new.isPlaying
    THEN [timers |-> pending, effectTimer |-> handle]
    ELSE LET cleared == IF handle = 0 THEN pending
                        ELSE clearTimeout(pending, handle)
             id == newTimerId(cleared)
         IN  [timers |-> cleared \cup {[id |-> id, step |-> new.step]},
              effectTimer |-> id]

\* useEffect(..., [step, isPlaying]) at the render that takes the state
\* from old to new.  When neither dependency changed the effect is left
\* alone.  Otherwise the previous cleanup runs (clearTimeout of the timer
\* the previous effect scheduled), then the effect body: return at once
\* when not playing, else schedule a timer that captures the new step.
useEffect(old, new, pending, handle) ==
    IF old.step = new.step /\ old.isPlaying = new.isPlaying
    THEN [timers |-> pending, effectTimer |-> handle]
    ELSE LET cleared == IF handle = 0 THEN pending
                        ELSE clearTimeout(pending, handle)
         IN  IF ~new.isPlaying
             THEN [timers |-> cleared, effectTimer |-> 0]
             ELSE LET id == newTimerId(cleared)
                  IN  [timers |-> cleared \cup {[id |-> id, step |-> new.step]},
                       effectTimer |-> id]

\* Render and commit of the batched updates of one task.
Commit(new, pending, op) ==
    LET e == useEffect(State, new, pending, effectTimer)
    IN  /\ isPlaying' = new.isPlaying
        /\ step' = new.step
        /\ callStack' = new.callStack
        /\ microtaskQueue' = new.microtaskQueue
        /\ callbackQueue' = new.callbackQueue
        /\ consoleOutput' = new.consoleOutput
        /\ lookingAt' = new.lookingAt
        /\ timers' = e.timers
        /\ effectTimer' = e.effectTimer
        /\ lastOp' = op
        /\ prev' = [state |-> State, timers |-> timers]
        /\ UNCHANGED variant

Init ==
    /\ variant \in Variants
    /\ isPlaying = InitialState.isPlaying
    /\ step = InitialState.step
    /\ callStack = InitialState.callStack
    /\ microtaskQueue = InitialState.microtaskQueue
    /\ callbackQueue = InitialState.callbackQueue
    /\ consoleOutput = InitialState.consoleOutput
    /\ lookingAt = InitialState.lookingAt
    /\ timers = {}
    /\ effectTimer = 0
    /\ lastOp = "mount"
    /\ prev = [state |-> InitialState, timers |-> {}]

\* The user clicks the play/pause button.
PlayPause ==
    Commit(onClickPlayPause(State), timers,
           IF isPlaying THEN "pause" ELSE "start")

\* The user clicks the reset button.
Reset ==
    Commit(resetState(State), timers, "reset")

\* A pending timer fires: it leaves the pending set and its callback runs.
TimerFires ==
    \E t \in timers :
        Commit(timerCallback(variant, t.step, State), timers \ {t}, "tick")

Next == PlayPause \/ Reset \/ TimerFires

Spec == Init /\ [][Next]_vars

\* The browser fires a timer that stays pending.
LiveSpec == Init /\ [][Next]_vars /\ WF_vars(TimerFires)

\* Array.prototype.reverse: the content of the array afterwards.
arrayReverse(a) == [i \in 1..Len(a) |-> a[Len(a) + 1 - i]]

\* renderCallStack(items), items being the array object `ref` of the heap.
\* items.reverse() reverses that object in place and returns it; map then
\* emits one child per element, in order.  Gives the heap afterwards and
\* the children in document order.
renderCallStack(heap, ref) ==
    LET after == [heap EXCEPT ![ref] = arrayReverse(@)]
    IN  [heap |-> after, rendered |-> after[ref]]

\* A call site that hands the state array itself to renderCallStack.
CallStackPanelNoCopy(cs) ==
    LET r == renderCallStack([state |-> cs, copy |-> <<>>], "state")
    IN  [rendered |-> r.rendered, callStack |-> r.heap.state]

\* The call site renderCallStack(callStack.slice().reverse()) for a state
\* array holding cs: slice() allocates a copy, reverse() reverses the copy
\* in place, and the copy is the argument.  Gives the children in document
\* order and the content of the state array afterwards.
CallStackPanel(cs) ==
    LET sliced   == [state |-> cs, copy |-> cs]
        reversed == [sliced EXCEPT !.copy = arrayReverse(@)]
        r        == renderCallStack(reversed, "copy")
    IN  [rendered |-> r.rendered, callStack |-> r.heap.state]

(***************************************************************************)
(* Properties                                                              *)
(***************************************************************************)

\* The state obtained by applying transitions 0..i-1 of the table, in
\* order, to the all-empty initial state.
RECURSIVE Replay(_, _)
Replay(v, i) ==
    IF i = 0 THEN InitialState
    ELSE steps(v, Replay(v, i - 1))[i]

\* The player has run the table to its end and stopped.
Completed ==
    /\ step = stepsLength(variant)
    /\ ~isPlaying
    /\ timers = {}

\* C1: in every reachable state the execution state (call stack, both
\* queues, console output, focus) is the one that replaying transitions
\* 0..step-1 from the all-empty state gives, in both variants.
C1_ReplayDeterministic ==
    /\ step \in 0..stepsLength(variant)
    /\ Exec(State) = Exec(Replay(variant, step))

C1_Witness ==
    /\ lastOp = "start"
    /\ step = 9
    /\ consoleOutput = <<"Start", "End", "Promise">>

\* C2: the state after a reset is exactly the initial state (not playing,
\* index 0, everything empty, focus on the stack), whatever the state
\* before, and a second reset would leave it as it is.
C2_ResetYieldsInitial ==
    lastOp = "reset" =>
        /\ State = InitialState
        /\ resetState(State) = State

C2_Witness ==
    /\ lastOp = "reset"
    /\ prev.state.isPlaying
    /\ prev.state.step = 6
    /\ prev.state.consoleOutput # <<>>

\* C3: across every task the step index stays the same, or grows by
\* exactly 1 through a tick taken while playing below the table length, or
\* becomes 0 through reset; it never exceeds the table length.
C3_StepIndexMoves ==
    /\ step <= stepsLength(variant)
    /\ \/ step = prev.state.step
       \/ /\ step = prev.state.step + 1
          /\ lastOp = "tick"
          /\ prev.state.isPlaying
          /\ prev.state.step < stepsLength(variant)
       \/ /\ step = 0
          /\ lastOp = "reset"

C3_Witness ==
    /\ lastOp = "tick"
    /\ prev.state.step = stepsLength(variant) - 1
    /\ step = stepsLength(variant)

\* C4: a tick taken at index = table length changes neither the index nor
\* the execution state; its only effect is isPlaying = false.
C4_TickAtEndIsNoop ==
    (lastOp = "tick" /\ prev.state.step = stepsLength(variant)) =>
        /\ State = [prev.state EXCEPT !.isPlaying = FALSE]
        /\ step = stepsLength(variant)

C4_Witness ==
    /\ lastOp = "tick"
    /\ prev.state.step = stepsLength(variant)
    /\ prev.state.isPlaying

\* C5 as stated: the tick that brings the index to the table length is the
\* last one, leaving the player not playing with no timer pending.
C5_StoppedOnReachingEnd ==
    (lastOp = "tick" /\ step = stepsLength(variant)) =>
        (~isPlaying /\ timers = {})

\* C5 amended: the tick that applies the last transition leaves the
\* player playing with one timer pending for index = table length; the
\* tick after it applies nothing and leaves the player not playing with
\* no timer pending.
C5_StoppedOneTickAfterEnd ==
    /\ (lastOp = "tick" /\ step = stepsLength(variant)
            /\ prev.state.step = stepsLength(variant) - 1) =>
        /\ isPlaying
        /\ \E t \in timers : timers = {t} /\ t.step = stepsLength(variant)
    /\ (lastOp = "tick" /\ step = stepsLength(variant)
            /\ prev.state.step = stepsLength(variant)) =>
        /\ ~isPlaying
        /\ timers = {}
        /\ Exec(State) = Exec(prev.state)

C5_Witness ==
    /\ lastOp = "tick"
    /\ step = stepsLength(variant)
    /\ isPlaying
    /\ timers # {}

\* C6: a click on play/pause flips the playing flag and leaves the step
\* index and the execution state as they were.
C6_ToggleChangesOnlyPlaying ==
    (lastOp \in {"start", "pause"}) =>
        /\ isPlaying = (lastOp = "start")
        /\ prev.state.isPlaying = (lastOp = "pause")
        /\ step = prev.state.step
        /\ Exec(State) = Exec(prev.state)

C6_Witness ==
    /\ lastOp = "start"
    /\ step = 4
    /\ callbackQueue # <<>>

\* C7: a pause or reset leaves no timer pending, and a tick only ever
\* fires from a playing state with the step its timer captured equal to
\* the current step, so nothing is applied between a pause or reset and
\* the next start.
C7_PauseResetCancelTimer ==
    /\ (lastOp \in {"pause", "reset"}) => timers = {}
    /\ (lastOp = "tick") =>
        /\ prev.state.isPlaying
        /\ \A t \in prev.timers : t.step = prev.state.step

C7_Witness ==
    /\ lastOp = "pause"
    /\ prev.timers # {}
    /\ step = 3

\* C8: exactly one timer is pending while playing and none while not
\* playing.
C8_OneTimerWhilePlaying ==
    Cardinality(timers) = IF isPlaying THEN 1 ELSE 0

C8_Witness ==
    /\ lastOp = "start"
    /\ step = 7
    /\ Cardinality(timers) = 1
    /\ prev.timers = {}

\* C9: after a start signal, unless a pause or reset follows, the player
\* eventually is at index = table length, not playing, with no timer
\* pending.
C9_ReplayTerminates ==
    (lastOp = "start") ~> (lastOp \in {"pause", "reset"} \/ Completed)

C9_Witness ==
    /\ Completed
    /\ lastOp = "tick"
    /\ consoleOutput # <<>>

\* C10: whenever the index equals the table length the console output is
\* Start, End, Promise, Timeout and the call stack and both queues are
\* empty.
C10_FinalState ==
    (step = stepsLength(variant)) =>
        /\ consoleOutput = <<"Start", "End", "Promise", "Timeout">>
        /\ callStack = <<>>
        /\ microtaskQueue = <<>>
        /\ callbackQueue = <<>>

C10_Witness ==
    /\ step = stepsLength(variant)
    /\ variant = "v13"
    /\ lastOp = "pause"

\* C11: whenever the step index is 2 the console output is exactly Start
\* and the focus is on the stack, in both variants.
C11_AfterTwoTicks ==
    (step = 2) =>
        /\ consoleOutput = <<"Start">>
        /\ lookingAt = "stack"

C11_Witness ==
    /\ step = 2
    /\ lastOp = "tick"
    /\ callStack = <<"console.log(\"Start\")", "Global Execution Context">>

\* C12: whenever the step index is 5 the microtask queue holds exactly one
\* entry and the callback queue holds exactly one entry, in both variants.
C12_AfterFiveTicks ==
    (step = 5) =>
        /\ Len(microtaskQueue) = 1
        /\ Len(callbackQueue) = 1

C12_Witness ==
    /\ step = 5
    /\ lastOp = "tick"
    /\ lookingAt = "microtask"

\* C13: a tick below the table length moves the index and the execution
\* state together in one step: the index grows by one in the very step
\* that applies the transition, and the execution state never differs
\* from the one before a task whose index is unchanged.
C13_TickIsAtomic ==
    /\ (lastOp = "tick" /\ prev.state.step < stepsLength(variant)) =>
           step = prev.state.step + 1
    /\ (Exec(State) # Exec(prev.state)) => step # prev.state.step

C13_Witness ==
    /\ lastOp = "tick"
    /\ step = prev.state.step + 1
    /\ Exec(State) # Exec(prev.state)
    /\ step = 8

\* s is a prefix of t.
IsPrefix(s, t) ==
    /\ Len(s) <= Len(t)
    /\ SubSeq(t, 1, Len(s)) = s

\* C14: across a tick, a start or a pause the previous console output is a
\* prefix of the new one and grows by at most one string; only reset
\* shortens it, to empty.  The output never holds a duplicate and never
\* more than 4 entries.
C14_OutputAppendOnly ==
    /\ (lastOp \in {"tick", "start", "pause"}) =>
           /\ IsPrefix(prev.state.consoleOutput, consoleOutput)
           /\ Len(consoleOutput) <= Len(prev.state.consoleOutput) + 1
    /\ (lastOp \in {"start", "pause"}) =>
           consoleOutput = prev.state.consoleOutput
    /\ (Len(consoleOutput) < Len(prev.state.consoleOutput)) =>
           (lastOp = "reset" /\ consoleOutput = <<>>)
    /\ Len(consoleOutput) <= 4
    /\ \A i, j \in 1..Len(consoleOutput) :
           consoleOutput[i] = consoleOutput[j] => i = j

C14_Witness ==
    /\ lastOp = "tick"
    /\ prev.state.consoleOutput = <<"Start">>
    /\ consoleOutput = <<"Start", "End">>

\* x occurs in the sequence s.
Occurs(x, s) == \E i \in 1..Len(s) : s[i] = x

\* x occurs in s at a position before one of y.
OccursBefore(x, y, s) ==
    \E i, j \in 1..Len(s) : s[i] = x /\ s[j] = y /\ i < j

\* C15: in every state where the timeout callback has been taken from the
\* callback queue (Timeout is in the output, or setTimeout callback is on
\* the call stack) the microtask queue is empty and Promise precedes
\* Timeout in the output, although the timeout entry was queued one tick
\* before the promise entry.
C15_MicrotasksDrainFirst ==
    /\ (Occurs("Timeout", consoleOutput) \/ Occurs("setTimeout callback", callStack)) =>
           /\ microtaskQueue = <<>>
           /\ callbackQueue = <<>>
           /\ OccursBefore("Promise", "Timeout", consoleOutput)
    /\ (microtaskQueue # <<>>) => callbackQueue # <<>>
    /\ (step = 4) => (callbackQueue # <<>> /\ microtaskQueue = <<>>)

C15_Witness ==
    /\ lastOp = "tick"
    /\ Occurs("setTimeout callback", callStack)
    /\ prev.state.callbackQueue # <<>>
    /\ consoleOutput = <<"Start", "End", "Promise", "Timeout">>

\* C16: a tick leaves the call stack unchanged, pushes one frame at index
\* 0 or pops the frame at index 0; the frames below are not altered and
\* the stack never holds more than 2 frames.
C16_StackIsLifo ==
    /\ Len(callStack) <= 2
    /\ (lastOp = "tick") =>
           \/ callStack = prev.state.callStack
           \/ /\ callStack # <<>>
              /\ Tail(callStack) = prev.state.callStack
           \/ /\ prev.state.callStack # <<>>
              /\ callStack = Tail(prev.state.callStack)

C16_Witness ==
    /\ lastOp = "tick"
    /\ Len(prev.state.callStack) = 2
    /\ callStack = Tail(prev.state.callStack)
    /\ step = 7

\* C17: a start issued in the completed state makes the player playing
\* with one timer pending for index = table length; from a state at the
\* table length every task but reset leaves the index and the execution
\* state as they are, and the tick leaves the player not playing with no
\* timer pending.
C17_CompletedStaysCompleted ==
    /\ (lastOp = "start" /\ prev.state.step = stepsLength(variant)) =>
           /\ isPlaying
           /\ \E t \in timers : timers = {t} /\ t.step = stepsLength(variant)
    /\ (prev.state.step = stepsLength(variant) /\ lastOp # "reset") =>
           /\ step = stepsLength(variant)
           /\ Exec(State) = Exec(prev.state)
    /\ (prev.state.step = stepsLength(variant) /\ lastOp = "tick") =>
           (~isPlaying /\ timers = {})

C17_Witness ==
    /\ lastOp = "start"
    /\ prev.state.step = stepsLength(variant)
    /\ ~prev.state.isPlaying
    /\ prev.timers = {}

\* C18: the focus is one of stack, microtask, callback, and it is on a
\* queue only while that queue is non-empty.
C18_FocusOnNonEmptyQueue ==
    /\ lookingAt \in LookingAt
    /\ (lookingAt = "microtask") => microtaskQueue # <<>>
    /\ (lookingAt = "callback") => callbackQueue # <<>>

C18_Witness ==
    /\ lookingAt = "callback"
    /\ callbackQueue # <<>>
    /\ microtaskQueue = <<>>
    /\ step > 4

C20_FallbackIffExhausted ==
    (renderDescription(variant, step) = "Visualization complete")
        <=> (step = stepsLength(variant))

\* C20 amended: the text shown is stepDescriptions[step] when there is
\* one and the fallback otherwise.  In the 13-transition variant the
\* fallback is shown exactly at index = table length.  In the
\* 12-transition variant the table has a description for index 12 too, so
\* the fallback is shown in no reachable state and at index = table length
\* the text is the last description.
C20_FallbackOnlyInV13 ==
    /\ (variant = "v13") =>
           ((renderDescription(variant, step) = "Visualization complete")
                <=> (step = stepsLength(variant)))
    /\ (variant = "v12") =>
           /\ renderDescription(variant, step) # "Visualization complete"
           /\ (step = stepsLength(variant)) =>
                  renderDescription(variant, step) =
                      "Global Execution Context is popped off the Call Stack - program complete"
    /\ (step < stepsLength(variant)) =>
           renderDescription(variant, step) = stepDescriptions(variant)[step + 1]

C20_Witness ==
    /\ variant = "v12"
    /\ step = stepsLength(variant)
    /\ renderDescription(variant, step) # "Visualization complete"

\* C21: rendering shows the frames in the stored order, the frame at
\* index 0 (the one pushed last) first, and leaves the callStack state
\* array as it was.
C21_RenderKeepsOrderAndState ==
    LET r == CallStackPanel(callStack)
    IN  /\ r.rendered = callStack
        /\ r.callStack = callStack
        /\ (lastOp = "tick" /\ Len(callStack) > Len(prev.state.callStack)) =>
               Tail(r.rendered) = prev.state.callStack

C21_Witness ==
    /\ lastOp = "tick"
    /\ Len(callStack) = 2
    /\ CallStackPanel(callStack).rendered[1] = "console.log(\"End\")"
    /\ CallStackPanel(callStack).rendered[2] = "Global Execution Context"

====
